---- MODULE Spec2Model ----
(***************************************************************************)
(* Model of src/Hash_tables.py: class HashTable, a hash table with         *)
(* separate chaining and automatic rehashing.                              *)
(*                                                                         *)
(* A container is the record [size, load_factor, threshold, count, table,  *)
(* raised, resizes, peak]; table is a sequence of size chains (chain i of  *)
(* the source is table[i + 1]), a chain is a sequence of <<key, value>>    *)
(* pairs.  raised says that the call raised, resizes counts the _resize    *)
(* calls of the call and peak is the largest count - threshold the call    *)
(* went through.  Every method of the class is an operator from a          *)
(* container to the container it leaves behind, and every public call is   *)
(* one action.                                                             *)
(***************************************************************************)
EXTENDS Integers, Sequences, FiniteSets, TLC

(***************************************************************************)
(* Bounds of the model.                                                    *)
(***************************************************************************)
NumKeys == 7
NumUpdatedKeys == 1
NumFewKeys == 4
MaxCallSize == 8
MaxInitialSize == 32
\* the keys of the calls on containers of any load factor, and the largest size
\* at which such a container is still put to
NumLoadKeys == 3
MaxLoadSize == 16

(***************************************************************************)
(* Inputs.  Keys are Python ints, values are Python objects written as     *)
(* strings, "None" being the None object.  load_factor is the exact        *)
(* rational <<numerator, denominator>> of a binary float.                  *)
(***************************************************************************)
None == "None"
KeyPool == <<0, 8, 16, -1, 6, 1, 9, 3, 11, 2>>
Keys == {KeyPool[i] : i \in 1..NumKeys}
Values == {"a", None}
\* every key is put with "a", the first NumUpdatedKeys keys with None as well
Puts == {<<KeyPool[i], "a">> : i \in 1..NumKeys}
            \cup {<<KeyPool[i], None>> : i \in 1..NumUpdatedKeys}
\* the keys and puts of the smaller specifications
FewKeys == {KeyPool[i] : i \in 1..NumFewKeys}
FewPuts == {p \in Puts : p[1] \in FewKeys}
\* the sizes of the constructor and _resize calls made on an existing container
CallSizes == (-MaxCallSize)..MaxCallSize
InitialSizes == (-MaxInitialSize)..MaxInitialSize
LoadFactors == {<<3, 4>>}
\* load factors from 0 upwards, the default among them
AnyLoadFactors == {<<0, 1>>, <<1, 16>>, <<1, 4>>, <<1, 2>>, <<3, 4>>, <<3, 2>>}
LoadKeys == {KeyPool[i] : i \in 1..NumLoadKeys}
LoadPuts == {p \in Puts : p[1] \in LoadKeys}
\* the key that stands for an unhashable object, the list []
ListKey == -100

VARIABLES size, load_factor, threshold, count, table, last, prev, ref, order

vars == <<size, load_factor, threshold, count, table, last, prev, ref, order>>

(***************************************************************************)
(* Python primitives used by the class.                                    *)
(***************************************************************************)
\* a & b on two's complement integers of unbounded width
RECURSIVE _and(_, _)
_and(a, b) ==
    IF a = 0 \/ b = 0 THEN 0
    ELSE IF a = -1 THEN b
    ELSE IF b = -1 THEN a
    ELSE (a % 2) * (b % 2) + 2 * _and(a \div 2, b \div 2)

\* hash(key) raises TypeError for an unhashable key
hashable(key) == key # ListKey

\* hash(key) of a small int: the int itself, except hash(-1) == -2
hash(key) == IF key = -1 THEN -2 ELSE key

\* int(n * f): the product truncated towards zero
int_mul(n, f) ==
    IF n * f[1] >= 0 THEN (n * f[1]) \div f[2]
    ELSE -((-(n * f[1])) \div f[2])

\* [[] for _ in range(n)]
empty_table(n) == [i \in 1..n |-> <<>>]

\* index of the first pair of bucket whose key equals key, 0 when there is none
find(bucket, key) ==
    IF \E i \in 1..Len(bucket) : bucket[i][1] = key
    THEN CHOOSE i \in 1..Len(bucket) :
             /\ bucket[i][1] = key
             /\ \A j \in 1..(i - 1) : bucket[j][1] # key
    ELSE 0

(***************************************************************************)
(* class HashTable                                                         *)
(***************************************************************************)
_is_power_of_two(n) == _and(n, n - 1) = 0 /\ n # 0

\* the object __init__ leaves behind; when it raises, no attribute is set
HashTable(initial_size, lf) ==
    IF ~_is_power_of_two(initial_size)
    THEN [size |-> 0, load_factor |-> lf, threshold |-> 0, count |-> 0,
          table |-> <<>>, raised |-> TRUE, resizes |-> 0, peak |-> 0]
    ELSE [size |-> initial_size,
          load_factor |-> lf,
          threshold |-> int_mul(initial_size, lf),
          count |-> 0,
          table |-> empty_table(initial_size),
          raised |-> FALSE,
          resizes |-> 0,
          peak |-> -int_mul(initial_size, lf)]

_hash(self, key) == hash(key) % self.size

\* for bucket in t[i..j]: for key, value in bucket: yield (key, value)
\* (the buckets are taken half by half, which keeps their order)
RECURSIVE chain_from(_, _, _)
chain_from(t, i, j) ==
    IF i > j THEN <<>>
    ELSE IF i = j THEN t[i]
    ELSE chain_from(t, i, (i + j) \div 2) \o chain_from(t, (i + j) \div 2 + 1, j)

items(self) == chain_from(self.table, 1, Len(self.table))

\* for key, _ in self.items(): yield key
keys(self) == LET pairs == items(self) IN [i \in 1..Len(pairs) |-> pairs[i][1]]

\* for _, value in self.items(): yield value
values(self) == LET pairs == items(self) IN [i \in 1..Len(pairs) |-> pairs[i][2]]

__len__(self) == self.count

\* get returning the value of the first pair of the chain, whatever its key
get_first(self, key, default) ==
    LET bucket == self.table[_hash(self, key) + 1]
    IN  IF bucket # <<>> THEN bucket[1][2] ELSE default

get(self, key, default) ==
    LET bucket == self.table[_hash(self, key) + 1]
        i == find(bucket, key)
    IN  IF i # 0 THEN bucket[i][2] ELSE default

\* return self.get(key) is not None
__contains__(self, key) == get(self, key, None) # None

\* max(a, b)
max(a, b) == IF a >= b THEN a ELSE b

\* the container after an assignment to count or threshold
seen(self) == [self EXCEPT !.peak = max(@, self.count - self.threshold)]

RECURSIVE put(_, _, _), _resize(_, _), reinsert(_, _)

\* reinsert with the loop ending one pair early
RECURSIVE reinsert_short(_, _)
reinsert_short(self, old) ==
    IF Len(old) <= 1 \/ self.raised THEN self
    ELSE reinsert_short(put(self, Head(old)[1], Head(old)[2]), Tail(old))

\* the loop of _resize over the pairs of the old table
reinsert(self, old) ==
    IF old = <<>> \/ self.raised THEN self
    ELSE reinsert(put(self, Head(old)[1], Head(old)[2]), Tail(old))

\* _resize without self.count = 0
_resize_keep_count(self, new_size) ==
    LET called == [self EXCEPT !.resizes = @ + 1]
    IN  IF ~_is_power_of_two(new_size) THEN [called EXCEPT !.raised = TRUE]
        ELSE reinsert([seen([called EXCEPT
                                !.size = new_size,
                                !.threshold = int_mul(new_size, self.load_factor)])
                          EXCEPT !.table = empty_table(new_size)],
                      items(self))

\* _resize computing the threshold as new_size * int(self.load_factor)
_resize_int_load_factor(self, new_size) ==
    LET called == [self EXCEPT !.resizes = @ + 1]
    IN  IF ~_is_power_of_two(new_size) THEN [called EXCEPT !.raised = TRUE]
        ELSE reinsert([seen([called EXCEPT
                                !.size = new_size,
                                !.threshold = new_size * int_mul(1, self.load_factor)])
                          EXCEPT !.table = empty_table(new_size), !.count = 0],
                      items(self))

\* _resize checking new_size after the attributes are assigned
_resize_late_check(self, new_size) ==
    LET called == [self EXCEPT !.resizes = @ + 1]
    IN  IF ~_is_power_of_two(new_size)
        THEN [seen([called EXCEPT
                       !.size = new_size,
                       !.threshold = int_mul(new_size, self.load_factor)])
                 EXCEPT !.raised = TRUE]
        ELSE reinsert([seen([called EXCEPT
                                !.size = new_size,
                                !.threshold = int_mul(new_size, self.load_factor)])
                          EXCEPT !.table = empty_table(new_size), !.count = 0],
                      items(self))

_resize(self, new_size) ==
    LET called == [self EXCEPT !.resizes = @ + 1]
    IN  IF ~_is_power_of_two(new_size) THEN [called EXCEPT !.raised = TRUE]
        ELSE reinsert([seen([called EXCEPT
                                !.size = new_size,
                                !.threshold = int_mul(new_size, self.load_factor)])
                          EXCEPT !.table = empty_table(new_size), !.count = 0],
                      items(self))

\* put with self.count += 1 on the update path as well
put_always_counts(self, key, value) ==
    LET grown == IF self.count >= self.threshold
                 THEN _resize(self, self.size * 2)
                 ELSE self
        index == _hash(grown, key)
        bucket == grown.table[index + 1]
        i == find(bucket, key)
    IN  IF grown.raised THEN grown
        ELSE IF ~hashable(key) THEN [grown EXCEPT !.raised = TRUE]
        ELSE IF i # 0
        THEN seen([grown EXCEPT !.table[index + 1][i] = <<key, value>>,
                                !.count = @ + 1])
        ELSE seen([grown EXCEPT !.table[index + 1] = Append(bucket, <<key, value>>),
                                !.count = @ + 1])

\* put growing on self.count > self.threshold
put_gt(self, key, value) ==
    LET grown == IF self.count > self.threshold
                 THEN _resize(self, self.size * 2)
                 ELSE self
        index == _hash(grown, key)
        bucket == grown.table[index + 1]
        i == find(bucket, key)
    IN  IF grown.raised THEN grown
        ELSE IF ~hashable(key) THEN [grown EXCEPT !.raised = TRUE]
        ELSE IF i # 0
        THEN [grown EXCEPT !.table[index + 1][i] = <<key, value>>]
        ELSE seen([grown EXCEPT !.table[index + 1] = Append(bucket, <<key, value>>),
                                !.count = @ + 1])

\* put whose scan of the chain stops after the first pair
put_first_only(self, key, value) ==
    LET grown == IF self.count >= self.threshold
                 THEN _resize(self, self.size * 2)
                 ELSE self
        index == _hash(grown, key)
        bucket == grown.table[index + 1]
    IN  IF grown.raised THEN grown
        ELSE IF ~hashable(key) THEN [grown EXCEPT !.raised = TRUE]
        ELSE IF bucket # <<>> /\ bucket[1][1] = key
        THEN [grown EXCEPT !.table[index + 1][1] = <<key, value>>]
        ELSE seen([grown EXCEPT !.table[index + 1] = Append(bucket, <<key, value>>),
                                !.count = @ + 1])

\* put without the scan of the chain for the key
put_no_scan(self, key, value) ==
    LET grown == IF self.count >= self.threshold
                 THEN _resize(self, self.size * 2)
                 ELSE self
        index == _hash(grown, key)
        bucket == grown.table[index + 1]
    IN  IF grown.raised THEN grown
        ELSE IF ~hashable(key) THEN [grown EXCEPT !.raised = TRUE]
        ELSE seen([grown EXCEPT !.table[index + 1] = Append(bucket, <<key, value>>),
                                !.count = @ + 1])

\* put computing the index before the table grows
put_stale_index(self, key, value) ==
    LET grown == IF self.count >= self.threshold
                 THEN _resize(self, self.size * 2)
                 ELSE self
        index == _hash(self, key)
        bucket == grown.table[index + 1]
        i == find(bucket, key)
    IN  IF grown.raised THEN grown
        ELSE IF ~hashable(key) THEN [grown EXCEPT !.raised = TRUE]
        ELSE IF i # 0
        THEN [grown EXCEPT !.table[index + 1][i] = <<key, value>>]
        ELSE seen([grown EXCEPT !.table[index + 1] = Append(bucket, <<key, value>>),
                                !.count = @ + 1])

\* put growing to the size the table has
put_same_size(self, key, value) ==
    LET grown == IF self.count >= self.threshold
                 THEN _resize(self, self.size)
                 ELSE self
        index == _hash(grown, key)
        bucket == grown.table[index + 1]
        i == find(bucket, key)
    IN  IF grown.raised THEN grown
        ELSE IF ~hashable(key) THEN [grown EXCEPT !.raised = TRUE]
        ELSE IF i # 0
        THEN [grown EXCEPT !.table[index + 1][i] = <<key, value>>]
        ELSE seen([grown EXCEPT !.table[index + 1] = Append(bucket, <<key, value>>),
                                !.count = @ + 1])

\* put growing until count is below threshold (or size above 4 * MaxLoadSize)
RECURSIVE put_regrow(_, _, _)
put_regrow(self, key, value) ==
    LET index == _hash(self, key)
        bucket == self.table[index + 1]
        i == find(bucket, key)
    IN  IF self.raised THEN self
        ELSE IF self.count >= self.threshold /\ self.size <= 4 * MaxLoadSize
        THEN put_regrow(_resize(self, self.size * 2), key, value)
        ELSE IF ~hashable(key) THEN [self EXCEPT !.raised = TRUE]
        ELSE IF i # 0
        THEN [self EXCEPT !.table[index + 1][i] = <<key, value>>]
        ELSE seen([self EXCEPT !.table[index + 1] = Append(bucket, <<key, value>>),
                               !.count = @ + 1])

\* put inserting a new pair at the head of the chain
put_prepend(self, key, value) ==
    LET grown == IF self.count >= self.threshold
                 THEN _resize(self, self.size * 2)
                 ELSE self
        index == _hash(grown, key)
        bucket == grown.table[index + 1]
        i == find(bucket, key)
    IN  IF grown.raised THEN grown
        ELSE IF ~hashable(key) THEN [grown EXCEPT !.raised = TRUE]
        ELSE IF i # 0
        THEN [grown EXCEPT !.table[index + 1][i] = <<key, value>>]
        ELSE seen([grown EXCEPT !.table[index + 1] = <<<<key, value>>>> \o bucket,
                                !.count = @ + 1])

put(self, key, value) ==
    LET grown == IF self.count >= self.threshold
                 THEN _resize(self, self.size * 2)
                 ELSE self
        index == _hash(grown, key)
        bucket == grown.table[index + 1]
        i == find(bucket, key)
    IN  IF grown.raised THEN grown
        ELSE IF ~hashable(key) THEN [grown EXCEPT !.raised = TRUE]
        ELSE IF i # 0
        THEN [grown EXCEPT !.table[index + 1][i] = <<key, value>>]
        ELSE seen([grown EXCEPT !.table[index + 1] = Append(bucket, <<key, value>>),
                                !.count = @ + 1])

\* delete shrinking without the floor of 8
delete_no_floor(self, key) ==
    LET index == _hash(self, key)
        bucket == self.table[index + 1]
        i == find(bucket, key)
        removed == [self EXCEPT
                       !.table[index + 1] =
                           SubSeq(bucket, 1, i - 1) \o SubSeq(bucket, i + 1, Len(bucket)),
                       !.count = @ - 1]
    IN  IF ~hashable(key) THEN [self EXCEPT !.raised = TRUE]
        ELSE IF i = 0 THEN self
        ELSE IF removed.count < removed.threshold \div 4
        THEN _resize(removed, removed.size \div 2)
        ELSE removed

\* delete removing the last pair of the chain instead of the matching one
delete_pop(self, key) ==
    LET index == _hash(self, key)
        bucket == self.table[index + 1]
        i == find(bucket, key)
        removed == [self EXCEPT
                       !.table[index + 1] = SubSeq(bucket, 1, Len(bucket) - 1),
                       !.count = @ - 1]
    IN  IF ~hashable(key) THEN [self EXCEPT !.raised = TRUE]
        ELSE IF i = 0 THEN self
        ELSE IF removed.size > 8 /\ removed.count < removed.threshold \div 4
        THEN _resize(removed, max(8, removed.size \div 2))
        ELSE removed

\* delete with the shrink check after the loop, made for absent keys as well
delete_shrink_always(self, key) ==
    LET index == _hash(self, key)
        bucket == self.table[index + 1]
        i == find(bucket, key)
        removed == IF i = 0 THEN self
                   ELSE [self EXCEPT
                            !.table[index + 1] =
                                SubSeq(bucket, 1, i - 1) \o SubSeq(bucket, i + 1, Len(bucket)),
                            !.count = @ - 1]
    IN  IF ~hashable(key) THEN [self EXCEPT !.raised = TRUE]
        ELSE IF removed.size > 8 /\ removed.count < removed.threshold \div 4
        THEN _resize(removed, max(8, removed.size \div 2))
        ELSE removed

\* delete shrinking on self.count <= self.threshold // 4
delete_le(self, key) ==
    LET index == _hash(self, key)
        bucket == self.table[index + 1]
        i == find(bucket, key)
        removed == [self EXCEPT
                       !.table[index + 1] =
                           SubSeq(bucket, 1, i - 1) \o SubSeq(bucket, i + 1, Len(bucket)),
                       !.count = @ - 1]
    IN  IF ~hashable(key) THEN [self EXCEPT !.raised = TRUE]
        ELSE IF i = 0 THEN self
        ELSE IF removed.size > 8 /\ removed.count <= removed.threshold \div 4
        THEN _resize(removed, max(8, removed.size \div 2))
        ELSE removed

\* delete shrinking as soon as count is below the threshold
delete_inverse(self, key) ==
    LET index == _hash(self, key)
        bucket == self.table[index + 1]
        i == find(bucket, key)
        removed == [self EXCEPT
                       !.table[index + 1] =
                           SubSeq(bucket, 1, i - 1) \o SubSeq(bucket, i + 1, Len(bucket)),
                       !.count = @ - 1]
    IN  IF ~hashable(key) THEN [self EXCEPT !.raised = TRUE]
        ELSE IF i = 0 THEN self
        ELSE IF removed.size > 8 /\ removed.count < removed.threshold
        THEN _resize(removed, max(8, removed.size \div 2))
        ELSE removed

\* the container delete leaves behind
delete(self, key) ==
    LET index == _hash(self, key)
        bucket == self.table[index + 1]
        i == find(bucket, key)
        removed == [self EXCEPT
                       !.table[index + 1] =
                           SubSeq(bucket, 1, i - 1) \o SubSeq(bucket, i + 1, Len(bucket)),
                       !.count = @ - 1]
    IN  IF ~hashable(key) THEN [self EXCEPT !.raised = TRUE]
        ELSE IF i = 0 THEN self
        ELSE IF removed.size > 8 /\ removed.count < removed.threshold \div 4
        THEN _resize(removed, max(8, removed.size \div 2))
        ELSE removed

\* the value delete returns
delete_result(self, key) ==
    LET bucket == self.table[_hash(self, key) + 1]
        i == find(bucket, key)
    IN  IF i = 0 THEN None ELSE bucket[i][2]

(***************************************************************************)
(* The state machine: one container, driven by calls of its public         *)
(* methods.  last is the call that has just returned, prev what the        *)
(* container looked like when it was made, ref the reference mapping on    *)
(* which the same puts and deletes are replayed.  order.seq lists the      *)
(* stored keys in the order of the puts that created their entries; it is  *)
(* kept only where order.on says so.                                       *)
(***************************************************************************)
self == [size |-> size, load_factor |-> load_factor, threshold |-> threshold,
         count |-> count, table |-> table, raised |-> FALSE,
         resizes |-> 0, peak |-> count - threshold]

\* the attributes at the entry of a call, whether its key is in the reference
\* mapping, and what the call before it did to size
Snapshot(had) ==
    [size |-> size, threshold |-> threshold, count |-> count, had |-> had,
     was |-> IF last.op = "put" /\ size > prev.size THEN "grew"
             ELSE IF last.op = "delete" /\ size < prev.size THEN "shrank"
             ELSE "same"]

Store(s) ==
    /\ size' = s.size
    /\ threshold' = s.threshold
    /\ count' = s.count
    /\ table' = s.table
    /\ load_factor' = s.load_factor

\* order after put(key, value) has created an entry or updated one
Inserted(key) ==
    IF order.on /\ key \notin DOMAIN ref
    THEN [order EXCEPT !.seq = Append(@, key)]
    ELSE order

\* order after delete(key)
Deleted(key) ==
    [order EXCEPT !.seq = SelectSeq(@, LAMBDA k : k # key)]

\* the states a constructor call that returns leaves behind
InitWith(factors, tracking) ==
    \E initial_size \in InitialSizes, lf \in factors :
        /\ _is_power_of_two(initial_size)
        /\ size = initial_size
        /\ load_factor = lf
        /\ threshold = HashTable(initial_size, lf).threshold
        /\ count = HashTable(initial_size, lf).count
        /\ table = HashTable(initial_size, lf).table
        /\ last = [op |-> "__init__", key |-> initial_size, value |-> None,
                   ret |-> None, raised |-> FALSE,
                   resizes |-> 0, peak |-> HashTable(initial_size, lf).peak]
        /\ prev = [size |-> initial_size, threshold |-> 0, count |-> 0,
                   had |-> FALSE, was |-> "same"]
        /\ ref = <<>>
        /\ order = [on |-> tracking, seq |-> <<>>]

Init == InitWith(LoadFactors, FALSE)

Put(key, value) ==
    /\ Store(put(self, key, value))
    /\ last' = [op |-> "put", key |-> key, value |-> value, ret |-> None,
                raised |-> put(self, key, value).raised,
                resizes |-> put(self, key, value).resizes,
                peak |-> put(self, key, value).peak]
    /\ prev' = Snapshot(key \in DOMAIN ref)
    /\ ref' = IF put(self, key, value).raised THEN ref
              ELSE [k \in DOMAIN ref \cup {key} |-> IF k = key THEN value ELSE ref[k]]
    /\ order' = IF put(self, key, value).raised THEN order ELSE Inserted(key)

Delete(key) ==
    /\ Store(delete(self, key))
    /\ last' = [op |-> "delete", key |-> key, value |-> None,
                ret |-> delete_result(self, key),
                raised |-> delete(self, key).raised,
                resizes |-> delete(self, key).resizes,
                peak |-> delete(self, key).peak]
    /\ prev' = Snapshot(key \in DOMAIN ref)
    /\ ref' = [k \in DOMAIN ref \ {key} |-> ref[k]]
    /\ order' = IF delete(self, key).raised THEN order ELSE Deleted(key)

Get(key, default) ==
    /\ last' = [op |-> "get", key |-> key, value |-> default,
                ret |-> IF hashable(key) THEN get(self, key, default) ELSE None,
                raised |-> ~hashable(key), resizes |-> 0, peak |-> self.peak]
    /\ prev' = Snapshot(key \in DOMAIN ref)
    /\ UNCHANGED <<size, load_factor, threshold, count, table, ref, order>>

\* key in table; the result is written as Python prints it
Contains(key) ==
    /\ last' = [op |-> "__contains__", key |-> key, value |-> None,
                ret |-> IF ~hashable(key) THEN None
                        ELSE IF __contains__(self, key) THEN "True" ELSE "False",
                raised |-> ~hashable(key), resizes |-> 0, peak |-> self.peak]
    /\ prev' = Snapshot(key \in DOMAIN ref)
    /\ UNCHANGED <<size, load_factor, threshold, count, table, ref, order>>

Next ==
    \/ \E p \in Puts : Put(p[1], p[2])
    \/ \E key \in Keys : Delete(key)
    \/ \E key \in Keys, default \in Values : Get(key, default)
    \/ \E key \in Keys : Contains(key)

Spec == Init /\ [][Next]_vars

(***************************************************************************)
(* Vocabulary of the properties.                                           *)
(***************************************************************************)
RECURSIVE PowerOfTwo(_)
PowerOfTwo(n) == n >= 1 /\ (n = 1 \/ (n % 2 = 0 /\ PowerOfTwo(n \div 2)))

RECURSIVE SumOfChains(_, _)
SumOfChains(t, i) == IF i > Len(t) THEN 0 ELSE Len(t[i]) + SumOfChains(t, i + 1)

\* the pairs a sequence of pairs yields, as a set
PairSet(seq) == {seq[i] : i \in 1..Len(seq)}

\* the pairs of the reference mapping
RefPairs == {<<k, ref[k]>> : k \in DOMAIN ref}

\* key is held by some chain of container s
Stored(s, key) == \E i \in 1..Len(s.table) : \E j \in 1..Len(s.table[i]) :
                      s.table[i][j][1] = key

Removed == last.op = "delete" /\ prev.had

\* C1: after every put and delete the set of pairs items() yields is the set of
\* pairs of the reference mapping on which the same calls were replayed
C1_NoDataLoss == PairSet(items(self)) = RefPairs

\* C1 witness: a delete has just shrunk a table that still holds two entries,
\* one of them with the value None
C1_Witness ==
    /\ Removed /\ size < prev.size
    /\ Cardinality(DOMAIN ref) >= 2
    /\ \E k \in DOMAIN ref : ref[k] = None

\* C2 as stated: size is a power of two and at least 8 in every state
C2_SizePowerOfTwoAtLeast8 == PowerOfTwo(size) /\ size >= 8

\* C2 amended: size is a power of two in every state, and no call takes it
\* below the smaller of 8 and the size it had (so it is always at least
\* min(8, initial_size))
C2_SizePowerOfTwoFloor ==
    /\ [](PowerOfTwo(size) /\ (last.op = "__init__" => size = last.key))
    /\ [][size' >= 8 \/ size' >= size]_vars

\* C2 witness: a container constructed with initial_size = 4 holds entries and
\* still has 4 chains
C2_Witness == size = 4 /\ count = 3 /\ last.op = "put"

\* C3: count is the sum of the lengths of the chains, and len() returns it
C3_CountIsSumOfChains ==
    /\ count = SumOfChains(table, 1)
    /\ __len__(self) = SumOfChains(table, 1)

\* C3 witness: a put of a new key has just grown a table holding entries
C3_Witness ==
    /\ last.op = "put" /\ ~prev.had
    /\ size = 2 * prev.size /\ prev.count >= 2
    /\ count = prev.count + 1

\* C4: right after put(k, v), get(k) returns v whatever the default
C4_RoundTrip ==
    last.op = "put" => \A d \in Values : get(self, last.key, d) = last.value

\* C4 witness: the put that has just returned grew the table and stored None
\* under a key that shares its chain with an older key
C4_Witness ==
    /\ last.op = "put" /\ size = 2 * prev.size /\ last.value = None
    /\ \E i \in 1..Len(table) : Len(table[i]) >= 2 /\ table[i][2][1] = last.key

\* C5: a put on a key already stored makes get return the new value and leaves
\* count as it was, also when it grows the table
C5_UpdateSemantics ==
    (last.op = "put" /\ prev.had) =>
        /\ \A d \in Values : get(self, last.key, d) = last.value
        /\ count = prev.count

\* C5 witness: a put on a stored key found count >= threshold and grew the table
C5_Witness ==
    /\ last.op = "put" /\ prev.had
    /\ prev.count >= prev.threshold /\ size = 2 * prev.size
    /\ prev.count >= 2

\* C6: delete of a stored key returns its value, makes get return the default,
\* takes one off count and leaves every other key with its value
C6_DeleteRemoves ==
    [][(last'.op = "delete" /\ Stored(self, last'.key)) =>
          /\ <<last'.key, last'.ret>> \in PairSet(items(self))
          /\ \A d \in Values : get(self', last'.key, d) = d
          /\ count' = count - 1
          /\ \A j \in Keys \ {last'.key} : \A d \in Values :
                 get(self', j, d) = get(self, j, d)]_vars

\* C6 witness: a delete of a stored key has shrunk the table and left other
\* keys behind
C6_Witness ==
    /\ Removed /\ size < prev.size
    /\ last.ret = None /\ count >= 2

\* C7: delete of a key that is not stored returns None and changes nothing
C7_DeleteAbsent ==
    [][(last'.op = "delete" /\ ~Stored(self, last'.key)) =>
          /\ last'.ret = None
          /\ UNCHANGED <<size, threshold, count, table, load_factor>>]_vars

\* C7 witness: delete of an absent key has returned on a table with size > 8
\* and count < threshold // 4
C7_Witness ==
    /\ last.op = "delete" /\ ~prev.had /\ last.ret = None
    /\ size > 8 /\ count < threshold \div 4

\* C8: with load factor 0.75 a put doubles size when count >= threshold held
\* at its start and leaves size alone otherwise; on a table of size 8 and
\* threshold 6 the puts of the first six distinct keys leave size 8 and the
\* put of the seventh makes it 16
C8_GrowthTrigger ==
    (last.op = "put" /\ load_factor = <<3, 4>>) =>
        /\ size = (IF prev.count >= prev.threshold THEN 2 * prev.size ELSE prev.size)
        /\ (prev.size = 8 /\ ~prev.had) =>
               /\ prev.threshold = 6
               /\ prev.count < 6 => size = 8
               /\ prev.count = 6 => size = 16 /\ count = 7

\* C8 witness: the seventh distinct key has been put into a table of size 8
C8_Witness ==
    /\ last.op = "put" /\ load_factor = <<3, 4>> /\ ~prev.had
    /\ prev.size = 8 /\ prev.count = 6 /\ size = 16 /\ count = 7

\* C9: a delete that removes a key halves size exactly when, the key removed,
\* size > 8 and count < threshold // 4; otherwise size stays, and size never
\* goes below 8 by a delete; with load factor 0.75 a table of size 16 that
\* held at least three entries becomes one of size 8 exactly at the delete
\* that brings count to 2
C9_ShrinkTrigger ==
    Removed =>
        /\ size = (IF prev.size > 8 /\ prev.count - 1 < prev.threshold \div 4
                   THEN prev.size \div 2 ELSE prev.size)
        /\ size >= 8 \/ size = prev.size
        /\ (load_factor = <<3, 4>> /\ prev.size = 16 /\ prev.count >= 3) =>
               (size = 8 <=> count = 2)

\* C9 witness: the delete that brought count to 2 has halved a table of size 16
C9_Witness ==
    /\ Removed /\ load_factor = <<3, 4>>
    /\ prev.size = 16 /\ prev.count = 3 /\ size = 8 /\ count = 2

\* C10: keys(), values() and items() yield count elements each, keys() yields
\* every stored key once and nothing else, and the i-th key and value are
\* those of the i-th item
C10_Enumeration ==
    LET i_s == items(self)
        k_s == keys(self)
        v_s == values(self)
    IN  /\ Len(i_s) = count
        /\ Len(k_s) = count
        /\ Len(v_s) = count
        /\ \A k \in Keys :
               Cardinality({i \in 1..Len(k_s) : k_s[i] = k})
                   = (IF k \in DOMAIN ref THEN 1 ELSE 0)
        /\ \A i \in 1..count :
               /\ <<k_s[i], v_s[i]>> = i_s[i]
               /\ ref[k_s[i]] = v_s[i]

\* C10 witness: a table whose enumeration crosses several chains, one of them
\* holding more than one entry
C10_Witness ==
    /\ count >= 4
    /\ \E i \in 1..Len(table) : Len(table[i]) >= 2
    /\ \E i \in 1..Len(table) : Len(table[i]) = 1

\* C11: key in table is true exactly when some chain holds an entry for key,
\* whatever the value stored with it
C11_Membership ==
    last.op = "__contains__" => (last.ret = "True" <=> Stored(self, last.key))

(***************************************************************************)
(* Misuse: calls with an unhashable key, and a constructor call and a      *)
(* direct _resize call with any size.  A constructor call that raises      *)
(* leaves the caller with the container it had, one that returns gives it  *)
(* a new one.                                                              *)
(***************************************************************************)
Construct(initial_size, lf) ==
    /\ last' = [op |-> "__init__", key |-> initial_size, value |-> None,
                ret |-> None, raised |-> HashTable(initial_size, lf).raised,
                resizes |-> 0, peak |-> HashTable(initial_size, lf).peak]
    /\ prev' = Snapshot(FALSE)
    /\ IF HashTable(initial_size, lf).raised
       THEN UNCHANGED <<size, load_factor, threshold, count, table, ref, order>>
       ELSE /\ Store(HashTable(initial_size, lf))
            /\ ref' = <<>>
            /\ order' = [order EXCEPT !.seq = <<>>]

\* self._resize(new_size) with a new_size that is not a power of two
ResizeCall(new_size) ==
    /\ ~PowerOfTwo(new_size)
    /\ Store(_resize(self, new_size))
    /\ last' = [op |-> "_resize", key |-> new_size, value |-> None, ret |-> None,
                raised |-> _resize(self, new_size).raised,
                resizes |-> _resize(self, new_size).resizes,
                peak |-> _resize(self, new_size).peak]
    /\ prev' = Snapshot(FALSE)
    /\ UNCHANGED <<ref, order>>

NextErr ==
    \/ \E p \in FewPuts : Put(p[1], p[2])
    \/ \E key \in FewKeys : Delete(key)
    \/ \E key \in FewKeys : Get(key, None)
    \/ \E key \in FewKeys : Contains(key)
    \/ \E value \in Values : Put(ListKey, value)
    \/ Delete(ListKey)
    \/ \E default \in Values : Get(ListKey, default)
    \/ Contains(ListKey)
    \/ \E new_size \in CallSizes : ResizeCall(new_size)
    \/ \E initial_size \in CallSizes, lf \in LoadFactors : Construct(initial_size, lf)

SpecErr == Init /\ [][NextErr]_vars

\* C12: put, get and delete with an unhashable key raise and leave size,
\* threshold, count and every chain as they were
C12_UnhashableKey ==
    [][(last'.key = ListKey /\ last'.op \in {"put", "get", "delete"}) =>
          /\ last'.raised
          /\ UNCHANGED <<size, threshold, count, table>>]_vars

\* C13: the constructor raises exactly for an initial_size that is not a power
\* of two and otherwise takes initial_size as size; _resize with a new_size
\* that is not a power of two raises and leaves size, threshold, count and
\* every chain as they were
C13_InvalidSize ==
    /\ [](last.op = "__init__" =>
             /\ last.raised <=> ~PowerOfTwo(last.key)
             /\ ~last.raised => size = last.key /\ count = 0)
    /\ [][(last'.op = "_resize" /\ ~PowerOfTwo(last'.key)) =>
             /\ last'.raised
             /\ UNCHANGED <<size, threshold, count, table>>]_vars

\* C13 witness: _resize(6) has raised on a table that holds entries
C13_Witness ==
    /\ last.op = "_resize" /\ last.key = 6 /\ last.raised
    /\ count >= 2 /\ size = 4

\* C14: across all chains there is at most one entry for each key
C14_NoDuplicateKeys ==
    LET k_s == keys(self)
    IN  \A a, b \in 1..Len(k_s) : k_s[a] = k_s[b] => a = b

\* C14 witness: a put on a stored key that is second in its chain has just
\* grown the table
C14_Witness ==
    /\ last.op = "put" /\ prev.had /\ size = 2 * prev.size
    /\ \E i \in 1..Len(table) : Len(table[i]) >= 2 /\ table[i][2][1] = last.key

\* C15: the table has size chains and every entry (k, v) is in the chain at
\* index hash(k) mod size
C15_BucketPlacement ==
    /\ Len(table) = size
    /\ \A i \in 1..Len(table) : \A j \in 1..Len(table[i]) :
           i - 1 = hash(table[i][j][1]) % size

\* C15 witness: a put has just grown a table that holds entries and placed its
\* new key at an index the old table did not have
C15_Witness ==
    /\ last.op = "put" /\ ~prev.had /\ size = 2 * prev.size /\ prev.count >= 2
    /\ hash(last.key) % size >= prev.size

\* C17: with load factor 0.75 the delete that follows a put which grew the
\* table does not shrink it, and the put that follows a delete which shrank
\* the table does not grow it
C17_Hysteresis ==
    load_factor = <<3, 4>> =>
        /\ (last.op = "delete" /\ prev.was = "grew") => size = prev.size
        /\ (last.op = "put" /\ prev.was = "shrank") => size = prev.size

\* C17 witness: a key has been put by a put that grew the table and deleted
\* again by the next call, and the table kept its size
C17_Witness ==
    /\ load_factor = <<3, 4>>
    /\ last.op = "delete" /\ prev.was = "grew" /\ prev.had
    /\ size = 16 /\ count = 6

(***************************************************************************)
(* The calls with the order of insertion recorded.                         *)
(***************************************************************************)
InitOrder == InitWith(LoadFactors, TRUE)

NextOrder ==
    \/ \E p \in FewPuts : Put(p[1], p[2])
    \/ \E key \in FewKeys : Delete(key)
    \/ \E key \in FewKeys : Get(key, None)

SpecOrder == InitOrder /\ [][NextOrder]_vars

\* the position of key in the order of insertion
Rank(key) == CHOOSE n \in 1..Len(order.seq) : order.seq[n] = key

\* within every chain the entries are in the order of insertion of their keys
InsertionOrdered ==
    \A i \in 1..Len(table) : \A a, b \in 1..Len(table[i]) :
        a < b => Rank(table[i][a][1]) < Rank(table[i][b][1])

\* C16 as stated: in every state the entries of each chain are in the order in
\* which their keys were inserted
C16_ChainOrder == InsertionOrdered

\* C16 amended: the entries of each chain are in the order of insertion at
\* construction, and every put and every delete that does not shrink the table
\* keeps them so
C16_ChainOrderUnlessShrunk ==
    /\ InsertionOrdered
    /\ [][(InsertionOrdered /\ size' >= size) => InsertionOrdered']_vars

\* C16 witness: a put has just grown a table that now has a chain of two
\* entries or more, all chains in the order of insertion
C16_Witness ==
    /\ order.on /\ last.op = "put" /\ size = 2 * prev.size
    /\ \E i \in 1..Len(table) : Len(table[i]) >= 2
    /\ InsertionOrdered

\* C20: with load factor 0.75 a put or a delete calls _resize at most once,
\* the call included that put makes for the pairs _resize inserts again, and
\* leaves the size as it was, doubled by a put or halved by a delete
C20_SingleResize ==
    (load_factor = <<3, 4>> /\ last.op \in {"put", "delete"}) =>
        /\ last.resizes <= 1
        /\ last.resizes = 0 => size = prev.size
        /\ (last.resizes = 1 /\ last.op = "put") => size = 2 * prev.size
        /\ (last.resizes = 1 /\ last.op = "delete") => 2 * size = prev.size

\* C20 witness: a put has called _resize once, which has inserted again three
\* pairs or more into a table twice the size
C20_Witness ==
    /\ load_factor = <<3, 4>> /\ last.op = "put" /\ last.resizes = 1
    /\ prev.count >= 3 /\ size = 2 * prev.size /\ count = prev.count + 1

(***************************************************************************)
(* The calls on containers of any load factor.  With a load factor of 0    *)
(* every put grows the table, so puts are made up to size MaxLoadSize.     *)
(***************************************************************************)
InitLoad == InitWith(AnyLoadFactors, FALSE)

PutSmall(key, value) == size <= MaxLoadSize /\ Put(key, value)

NextLoad ==
    \/ \E p \in LoadPuts : PutSmall(p[1], p[2])
    \/ \E key \in LoadKeys : Delete(key)
    \/ \E key \in LoadKeys : Get(key, None)

SpecLoad == InitLoad /\ [][NextLoad]_vars

\* C18 as stated: whatever the load factor, count is never more than one above
\* threshold, neither while a put or a delete runs nor when it has returned
C18_AtMostOneAbove == last.peak <= 1 /\ count - threshold <= 1

\* C18 amended: with a load factor of 0.25 or more, count is never more than
\* one above threshold, neither while a put or a delete runs nor when it has
\* returned
C18_AtMostOneAboveFromQuarter ==
    4 * load_factor[1] >= load_factor[2] =>
        last.peak <= 1 /\ count - threshold <= 1

\* C18 witness: with load factor 0.25 a put that has grown the table leaves
\* count one above threshold
C18_Witness ==
    /\ load_factor = <<1, 4>> /\ last.op = "put" /\ last.resizes >= 1
    /\ last.peak = 1 /\ count = threshold + 1

\* 2 ^ n
RECURSIVE pow2(_)
pow2(n) == IF n <= 0 THEN 1 ELSE 2 * pow2(n - 1)

\* C19: every put and every delete with a hashable key returns without raising;
\* a put on count entries has made at most 2 ^ count calls of _resize, the
\* calls made by the puts of the rehash loops included, and a delete at most one
C19_Termination ==
    /\ last.op \in {"put", "delete"} => ~last.raised
    /\ last.op = "put" => last.resizes <= pow2(prev.count)
    /\ last.op = "delete" => last.resizes <= 1

\* C19 witness: with load factor 0 a put on two entries has returned after four
\* calls of _resize, three of them made by the puts of the rehash loops
C19_Witness ==
    /\ load_factor = <<0, 1>> /\ last.op = "put" /\ ~last.raised
    /\ prev.count = 2 /\ last.resizes = 4 /\ count = 3

====
